---------------------------- MODULE Spec2Model ----------------------------
(***************************************************************************)
(* Monitoring engine of the uptime monitor: the two check-cycle drivers    *)
(* (the cron trigger route GET /api/cron/monitor and the in-process        *)
(* node-cron scheduler), their per-endpoint downtime trackers, the         *)
(* scheduler singleton (start / stop) and the shared-secret check of the   *)
(* trigger route.                                                          *)
(*                                                                         *)
(* JavaScript runs one synchronous segment at a time; a handler can be     *)
(* interleaved with other handlers only at an `await`.  Every action below *)
(* is one such segment: from the point a handler is (re)entered to its     *)
(* next await or its return.                                               *)
(***************************************************************************)
EXTENDS Integers, Sequences, FiniteSets, Bags, TLC

(***************************************************************************)
(* Bounds of the model.                                                    *)
(***************************************************************************)
\* Probes in one run (each probe advances the clock) when cycles run one
\* at a time.
MaxTime == 5
\* Probes in one run of the whole program, cycles overlapping.
MaxTimeConc == 3
\* Probes in one run of overlapping trigger requests.
MaxTimeOverlap == 6
\* Probes in one run of trigger requests and endpoint registrations.
MaxTimeRegistry == 3
\* Probes in one run that draws from every probe outcome.
MaxTimeProbe == 3
\* Probes in one run of cycles and process restarts.
MaxTimeRestart == 6
\* The end of the clock when scheduler ticks are timed.
MaxTimeClock == 9
\* Cycle executions (trigger requests and scheduler ticks) in flight at once.
MaxExec == 2
\* Scheduled tasks that cron.schedule creates in one run.
MaxTasks == 2
\* Days of January 1970 that a query may name.
MaxDay == 3
\* Rows of the checks table when queries run.
MaxRows == 2
\* Rows of the checks table when incidents are looked at.
MaxRowsIncident == 3
\* Rows of the checks table when days are summed.
MaxRowsRollup == 3
\* Probes in one run of cycles that tell a second outage from the first.
MaxTimeAlternate == 9
\* Probes in one run of POST requests to the trigger route.
MaxTimePost == 3

(***************************************************************************)
(* Program constants.                                                      *)
(***************************************************************************)
\* part_001:24  (cron trigger route)
ALERT_THRESHOLD_CHECKS_cron == 3
\* timezone.ts:234  (in-process scheduler)
ALERT_THRESHOLD_CHECKS_sched == 4
\* `firstFailureTime: Date | null`: the null value of a time.
NoTime == -1
\* timezone.ts:235
CHECK_INTERVAL_SECONDS == 30
\* "*/30 * * * * *": the seconds between two ticks of the scheduler.
CronPeriodSeconds == 30
\* Seconds in one unit of the clock: half a tick period.
UnitSeconds == CronPeriodSeconds \div 2
\* `task: ScheduledTask | null`: the null value of a task handle.
NoTask == 0

Drivers == {"cron", "sched"}

ALERT_THRESHOLD_CHECKS(d) ==
    IF d = "cron" THEN ALERT_THRESHOLD_CHECKS_cron ELSE ALERT_THRESHOLD_CHECKS_sched

EndpointIds == {"e1", "e2"}
Execs == 1..MaxExec

\* A JavaScript value that may be null / undefined: <<>> or <<v>>.
Undefined == <<>>
Some(v) == <<v>>

\* Strings that the code takes apart are sequences of characters.
BearerPrefix == <<"B", "e", "a", "r", "e", "r", " ">>
\* String.prototype.startsWith
startsWith(s, p) == Len(s) >= Len(p) /\ SubSeq(s, 1, Len(p)) = p
\* String.prototype.substring(n)
substring(s, n) == SubSeq(s, n + 1, Len(s))

\* Values of process.env.CRON_SECRET the model starts with.
Secrets == {Undefined, Some(<<>>), Some(<<"k">>)}
\* Authorization headers a trigger request may carry (Undefined: none).
AuthHeaders ==
    {Undefined, Some(<<>>), Some(<<"k">>), Some(<<"x">>),
     Some(BearerPrefix \o <<"k">>), Some(BearerPrefix \o <<"x">>), Some(BearerPrefix)}

VARIABLES
    cronSecret,        \* process.env.CRON_SECRET
    registry,          \* the endpoints table, in name order
    checks,            \* the checks table: the bag of its rows (endpoint_id, status);
                       \* no cycle reads a row back, so ids and timestamps are left out
    downtimeTrackers,  \* per driver module: Map<endpoint id, DowntimeTracker>
    exec,              \* the cycle executions (handler activations)
    schedulerState,    \* global[SCHEDULER_KEY]: isRunning, task
    activeTasks,       \* node-cron tasks that are scheduled and not stopped
    tasksCreated,      \* number of tasks cron.schedule has created
    initialized,       \* global[INIT_KEY]
    now,               \* the clock
    slackLog,          \* the alerts handed to sendSlackAlert, in order
    lastResponse,      \* what the handler that returned last answered (or logged),
                       \* until the next handler starts
    streak             \* history: DOWN results applied to a tracker since the last UP
                       \* (or since the process started)

vars == <<cronSecret, registry, checks, downtimeTrackers, exec, schedulerState,
          activeTasks, tasksCreated, initialized, now, slackLog, lastResponse, streak>>

(***************************************************************************)
(* Prober: checkServiceStatus.                                             *)
(***************************************************************************)
\* What axios.get can end in: a response with a status code, or a rejection
\* carrying an error code and no response.
Response(code) == [kind |-> "response", code |-> code, error |-> "none"]
Failure(err) == [kind |-> "error", code |-> 0, error |-> err]

\* The outcomes a cycle's probe draws from.
ProbeOutcomes == {Response(200), Response(503), Failure("ETIMEDOUT")}

\* Every outcome the classification tells apart: status codes on both
\* sides of 200 and of 500, and the error codes the catch block names.
AllProbeOutcomes ==
    {Response(c) : c \in {100, 199, 200, 204, 301, 404, 499, 500, 503, 599}}
        \cup {Failure(c) : c \in {"ECONNREFUSED", "ENOTFOUND", "ETIMEDOUT", "ECONNABORTED",
                                   "ECONNRESET", "EHOSTUNREACH", "ENETUNREACH",
                                   "CERT_HAS_EXPIRED", "UNABLE_TO_VERIFY_LEAF_SIGNATURE",
                                   "unknown"}}

\* Faulty variant of checkServiceStatus: only 2xx and 3xx count as UP.
checkServiceStatus_ClientErrorIsDown(o, dt) ==
    IF o.kind = "response"
    THEN LET isUp == o.code >= 200 /\ o.code < 400
         IN  [status |-> IF isUp THEN "UP" ELSE "DOWN", httpCode |-> Some(o.code),
              responseTime |-> Some(dt)]
    ELSE [status |-> "DOWN", httpCode |-> Undefined, responseTime |-> Some(dt)]

\* checkServiceStatus(url), the request ending in o after dt units of time.
\* validateStatus: () => true, so no status code rejects; a rejection is
\* caught and made a DOWN result.
checkServiceStatus(o, dt) ==
    IF o.kind = "response"
    THEN LET isUp == o.code >= 200 /\ o.code < 500
         IN  [status |-> IF isUp THEN "UP" ELSE "DOWN", httpCode |-> Some(o.code),
              responseTime |-> Some(dt)]
    ELSE [status |-> "DOWN", httpCode |-> Undefined, responseTime |-> Some(dt)]

NoResult == [status |-> "null", httpCode |-> Undefined, responseTime |-> Undefined]

(***************************************************************************)
(* Downtime tracker.                                                       *)
(***************************************************************************)
\* The tracker a driver stores the first time it meets an endpoint.
NewTracker ==
    [consecutiveFailures |-> 0, firstFailureTime |-> NoTime,
     alertSent |-> FALSE, lastStatus |-> "null"]

\* downtimeTrackers.has(id) / set(id, {...}) / get(id)
GetTracker(d, e) ==
    IF e \in DOMAIN downtimeTrackers[d] THEN downtimeTrackers[d][e] ELSE NewTracker

\* map with the entry of e set to t
PutTracker(m, e, t) ==
    [k \in (DOMAIN m) \cup {e} |-> IF k = e THEN t ELSE m[k]]

\* DOWN branch up to the threshold test: count the failure, note its time.
CountFailure(t, time) ==
    LET n == t.consecutiveFailures + 1
    IN  [t EXCEPT !.consecutiveFailures = n,
                  !.firstFailureTime = IF n = 1 THEN time ELSE @]

\* Faulty variant of ShouldAlert: the alert-sent flag is not consulted.
ShouldAlert_IgnoresAlertSent(t, d) ==
    t.consecutiveFailures >= ALERT_THRESHOLD_CHECKS(d)

\* `tracker.consecutiveFailures >= ALERT_THRESHOLD_CHECKS && !tracker.alertSent`
ShouldAlert(t, d) ==
    t.consecutiveFailures >= ALERT_THRESHOLD_CHECKS(d) /\ ~t.alertSent

\* Faulty variant of ShouldRecover: the alert-sent flag is not consulted.
ShouldRecover_IgnoresAlertSent(t) ==
    t.lastStatus = "DOWN"

\* `tracker.lastStatus === CheckStatus.DOWN && tracker.alertSent`
ShouldRecover(t) ==
    t.lastStatus = "DOWN" /\ t.alertSent

\* Faulty variant of ResetTracker: the first-failure time is kept.
ResetTracker_KeepsFirstFailure(t) ==
    [t EXCEPT !.consecutiveFailures = 0, !.alertSent = FALSE]

\* "Reset tracker"
ResetTracker(t) ==
    [t EXCEPT !.consecutiveFailures = 0, !.firstFailureTime = NoTime,
              !.alertSent = FALSE]

\* `tracker.alertSent = true`, after the downtime alert was awaited
MarkAlertSent(t) == [t EXCEPT !.alertSent = TRUE]

\* `tracker.lastStatus = result.status`
SetLastStatus(t, s) == [t EXCEPT !.lastStatus = s]

\* Math.round(a / b) for a >= 0, b > 0
Round(a, b) == (2 * a + b) \div (2 * b)

\* The downtime in minutes that an alert of driver d reports, t being the
\* tracker and time the clock when the message is made.
\* Route: `tracker.firstFailureTime
\*            ? Math.round((Date.now() - firstFailureTime.getTime()) / 1000 / 60)
\*            : tracker.consecutiveFailures`
\* Scheduler: `Math.round((consecutiveFailures * CHECK_INTERVAL_SECONDS) / 60)`
downtimeDuration(d, t, time) ==
    IF d = "cron"
    THEN IF t.firstFailureTime # NoTime
         THEN Round((time - t.firstFailureTime) * UnitSeconds * 1000, 1000 * 60)
         ELSE t.consecutiveFailures
    ELSE Round(t.consecutiveFailures * CHECK_INTERVAL_SECONDS, 60)

\* The alert handed to sendSlackAlert, made from tracker t at clock time.
\* minutes is the downtime the message reports.  History: k is the streak
\* the alert was raised at, since the first failure time the tracker held,
\* at the clock when it was raised, and delivery what became of it
\* ("pending" while sendSlackAlert is awaited).
Alert(d, e, kind, k, t, time) ==
    [driver |-> d, endpoint |-> e, kind |-> kind, k |-> k,
     minutes |-> downtimeDuration(d, t, time),
     since |-> t.firstFailureTime, at |-> time, delivery |-> "pending"]

\* process.env.SLACK_WEBHOOK_URL as a call of sendSlackAlert may read it.
WebhookUrls == {Undefined, Some(<<>>), Some(<<"w">>)}

\* What fetch(webhookUrl, ...) can end in: a response (whatever its status,
\* fetch resolves and the response is not looked at) or a rejection.
FetchOutcomes == {"ok", "httpError", "rejected"}

\* Faulty variant of sendSlackAlert: a rejected fetch is thrown on to the
\* caller.
sendSlackAlert_Rethrows(webhookUrl, fetched) ==
    IF webhookUrl = Undefined \/ webhookUrl = Some(<<>>)
    THEN [delivery |-> "unconfigured", threw |-> FALSE]
    ELSE [delivery |-> IF fetched = "ok" THEN "sent" ELSE "failed",
          threw |-> fetched = "rejected"]

\* sendSlackAlert(message): no webhook URL, no attempt; otherwise one fetch,
\* whose rejection is caught and logged.  It never throws.
sendSlackAlert(webhookUrl, fetched) ==
    IF webhookUrl = Undefined \/ webhookUrl = Some(<<>>)
    THEN [delivery |-> "unconfigured", threw |-> FALSE]
    ELSE [delivery |-> IF fetched = "ok" THEN "sent" ELSE "failed",
          threw |-> FALSE]

(***************************************************************************)
(* Cycle executions.                                                       *)
(***************************************************************************)
NoResponse ==
    [driver |-> "none", status |-> 0, body |-> "none", checked |-> 0, up |-> 0, down |-> 0,
     taskActive |-> FALSE]

IdleExec ==
    [driver |-> "none", pc |-> "idle", task |-> NoTask, endpoints |-> <<>>, i |-> 0,
     result |-> NoResult, upCount |-> 0, downCount |-> 0, alert |-> 0]

\* A slot that holds no running handler.
Free(x) == exec[x].pc = "idle"
InFlight(x) == ~Free(x)

\* What a returning handler answers (route: the HTTP response) or logs
\* (scheduler callback: status 0, no HTTP response).  taskActive notes
\* whether the scheduled task that started the handler is still scheduled
\* when the handler returns.
Answer(r, status, body, checked) ==
    [driver |-> r.driver,
     status |-> IF r.driver = "sched" THEN 0 ELSE status,
     body |-> body, checked |-> checked, up |-> r.upCount, down |-> r.downCount,
     taskActive |-> r.task \in activeTasks]

\* The handler in slot x returns with answer a.
Return(x, a) ==
    /\ exec' = [exec EXCEPT ![x] = IdleExec]
    /\ lastResponse' = a

\* The end of one pass of the endpoint loop by handler x, r being its
\* state: the next endpoint, or the success return after the last one.
EndOfIteration(x, r) ==
    IF r.i < Len(r.endpoints)
    THEN /\ exec' = [exec EXCEPT ![x] = [r EXCEPT !.pc = "probe", !.i = r.i + 1,
                                                   !.result = NoResult,
                                                   !.alert = 0]]
         /\ UNCHANGED lastResponse
    ELSE Return(x, Answer(r, 200, "success", Len(r.endpoints)))

\* What the handler's catch block does with an exception thrown in the loop
\* (or by findMany): the error is logged (scheduler) or answered with 500
\* (route), and the handler ends.
CatchError(x) ==
    Return(x, Answer(exec[x], 500, "error", 0))

(***************************************************************************)
(* Scheduler singleton.                                                    *)
(***************************************************************************)
\* Faulty variant of AlreadyRunning: the singleton check is missing.
AlreadyRunning_NoCheck == FALSE

\* `if (schedulerState.isRunning) return;`
AlreadyRunning == schedulerState.isRunning

\* Faulty variant of TaskStop: the handle is dropped without stopping the task.
TaskStop_NotStopped(tasks, t) == tasks

\* `schedulerState.task.stop()`: the task fires no more.
TaskStop(tasks, t) == tasks \ {t}

\* startMonitoringScheduler(): cron.schedule creates a task, which is kept
\* in schedulerState.task, and isRunning is set.
startMonitoringScheduler ==
    IF AlreadyRunning
    THEN UNCHANGED <<schedulerState, activeTasks, tasksCreated>>
    ELSE /\ tasksCreated < MaxTasks
         /\ tasksCreated' = tasksCreated + 1
         /\ activeTasks' = activeTasks \cup {tasksCreated + 1}
         /\ schedulerState' = [isRunning |-> TRUE, task |-> tasksCreated + 1]

\* Faulty variant of stopMonitoringScheduler: isRunning is left set.
stopMonitoringScheduler_StillRunning ==
    IF schedulerState.task # NoTask
    THEN /\ activeTasks' = TaskStop(activeTasks, schedulerState.task)
         /\ schedulerState' = [schedulerState EXCEPT !.task = NoTask]
         /\ UNCHANGED tasksCreated
    ELSE UNCHANGED <<schedulerState, activeTasks, tasksCreated>>

\* stopMonitoringScheduler()
stopMonitoringScheduler ==
    IF schedulerState.task # NoTask
    THEN /\ activeTasks' = TaskStop(activeTasks, schedulerState.task)
         /\ schedulerState' = [isRunning |-> FALSE, task |-> NoTask]
         /\ UNCHANGED tasksCreated
    ELSE UNCHANGED <<schedulerState, activeTasks, tasksCreated>>

\* Application initialisation: the module body, guarded by global[INIT_KEY].
AppInit ==
    /\ ~initialized
    /\ initialized' = TRUE
    /\ startMonitoringScheduler
    /\ UNCHANGED <<cronSecret, registry, checks, downtimeTrackers, exec, now,
                   slackLog, lastResponse, streak>>

\* GET /api/scheduler/start
SchedulerStartRoute ==
    /\ startMonitoringScheduler
    /\ UNCHANGED <<cronSecret, registry, checks, downtimeTrackers, exec,
                   initialized, now, slackLog, lastResponse, streak>>

\* A call of stopMonitoringScheduler (graceful shutdown).
SchedulerStop ==
    /\ stopMonitoringScheduler
    /\ UNCHANGED <<cronSecret, registry, checks, downtimeTrackers, exec,
                   initialized, now, slackLog, lastResponse, streak>>

(***************************************************************************)
(* The two cycle drivers.                                                  *)
(***************************************************************************)
\* The slot a new handler activation takes: the first free one.
FirstFree(x) == Free(x) /\ \A y \in Execs : y < x => InFlight(y)

\* No handler activation is between its entry and its return.
NoneInFlight == \A x \in Execs : Free(x)

\* node-cron fires the callback of a scheduled task; the callback runs up
\* to `await prisma.endpoints.findMany()`.  node-cron does not wait for an
\* earlier activation of the callback to return.
StartCallback(x, t) ==
    /\ FirstFree(x)
    /\ t \in activeTasks
    /\ exec' = [exec EXCEPT ![x] =
                   [IdleExec EXCEPT !.driver = "sched", !.pc = "findMany", !.task = t]]
    /\ lastResponse' = NoResponse

\* A tick of a scheduled task, at whatever time.
SchedTick(x, t) ==
    /\ StartCallback(x, t)
    /\ UNCHANGED <<cronSecret, registry, checks, downtimeTrackers, schedulerState,
                   activeTasks, tasksCreated, initialized, now, slackLog, streak>>

\* The time of the first tick after time.
NextTickTime(time) ==
    LET P == CronPeriodSeconds \div UnitSeconds
    IN  (time \div P + 1) * P

\* The next tick of a scheduled task, at its time: the clock moves on to
\* the next multiple of the period.
TimedSchedTick(x, t) ==
    /\ StartCallback(x, t)
    /\ now' = NextTickTime(now)
    /\ UNCHANGED <<cronSecret, registry, checks, downtimeTrackers, schedulerState,
                   activeTasks, tasksCreated, initialized, slackLog, streak>>

\* Faulty variant of SecretMissing: the configuration check is missing.
SecretMissing_NoCheck(expectedSecret) == FALSE

\* `!expectedSecret`  (undefined or the empty string)
SecretMissing(expectedSecret) ==
    expectedSecret = Undefined \/ expectedSecret = Some(<<>>)

\* `authHeader?.startsWith("Bearer ") ? authHeader.substring(7) : authHeader`
providedSecret(authHeader) ==
    IF authHeader # Undefined /\ startsWith(authHeader[1], BearerPrefix)
    THEN Some(substring(authHeader[1], 7))
    ELSE authHeader

\* Faulty variant of SecretMismatch: a request without the header is let through.
SecretMismatch_MissingHeaderPasses(authHeader, expectedSecret) ==
    authHeader # Undefined /\ providedSecret(authHeader) # expectedSecret

\* `providedSecret !== expectedSecret`.  (null and undefined are one value
\* here: the comparison is reached only with a non-empty expectedSecret.)
SecretMismatch(authHeader, expectedSecret) ==
    providedSecret(authHeader) # expectedSecret

\* GET /api/cron/monitor with Authorization header authHeader: the secret
\* check, then on to `await prisma.endpoints.findMany()`.
CronRequest(x, authHeader) ==
    /\ FirstFree(x)
    /\ LET r == [IdleExec EXCEPT !.driver = "cron"]
       IN  IF SecretMissing(cronSecret)
           THEN /\ lastResponse' = Answer(r, 500, "Server configuration error", 0)
                /\ UNCHANGED exec
           ELSE IF SecretMismatch(authHeader, cronSecret)
           THEN /\ lastResponse' = Answer(r, 401, "Unauthorized", 0)
                /\ UNCHANGED exec
           ELSE /\ exec' = [exec EXCEPT ![x] = [r EXCEPT !.pc = "findMany"]]
                /\ lastResponse' = NoResponse
    /\ UNCHANGED <<cronSecret, registry, checks, downtimeTrackers, schedulerState,
                   activeTasks, tasksCreated, initialized, now, slackLog, streak>>

\* Faulty variant of handler: the cycle starts on the signature alone.
handler_SignatureOnly(x, authHeader) ==
    /\ FirstFree(x)
    /\ exec' = [exec EXCEPT ![x] = [IdleExec EXCEPT !.driver = "cron", !.pc = "findMany"]]
    /\ lastResponse' = NoResponse
    /\ UNCHANGED <<cronSecret, registry, checks, downtimeTrackers, schedulerState,
                   activeTasks, tasksCreated, initialized, now, slackLog, streak>>

\* `async function handler(request) { return GET(request); }`
handler(x, authHeader) == CronRequest(x, authHeader)

\* POST /api/cron/monitor, `verifySignatureAppRouter(handler)`: the wrapper
\* calls handler with the request when the Upstash signature verifies, and
\* answers 403 itself when it does not.
CronPost(x, signed, authHeader) ==
    IF signed
    THEN handler(x, authHeader)
    ELSE /\ FirstFree(x)
         /\ lastResponse' = Answer([IdleExec EXCEPT !.driver = "cron"], 403,
                                    "invalid signature", 0)
         /\ UNCHANGED <<cronSecret, registry, checks, downtimeTrackers, exec,
                        schedulerState, activeTasks, tasksCreated, initialized, now,
                        slackLog, streak>>

\* `if (endpoints.length === 0)`
NoEndpoints(endpoints) == Len(endpoints) = 0

\* Faulty variant of NoEndpointsAnswer: an empty list is answered as an error.
NoEndpointsAnswer_AsError(r) == Answer(r, 404, "error", 0)

\* The answer of a cycle that found no endpoint:
\* { success: true, message: "No endpoints to monitor", checked: 0 }
NoEndpointsAnswer(r) == Answer(r, 200, "No endpoints to monitor", 0)

\* prisma.endpoints.findMany() returns the endpoint list (ok) or throws.
\* With endpoints, the handler goes on to the first probe of its loop.
FindMany(x, ok) ==
    /\ exec[x].pc = "findMany"
    /\ LET r == exec[x]
       IN  IF ~ok THEN CatchError(x)
           ELSE IF NoEndpoints(registry)
           THEN Return(x, NoEndpointsAnswer(r))
           ELSE EndOfIteration(x, [r EXCEPT !.endpoints = registry])
    /\ UNCHANGED <<cronSecret, registry, checks, downtimeTrackers, schedulerState,
                   activeTasks, tasksCreated, initialized, now, slackLog, streak>>

\* checkServiceStatus(endpoint.url) returns; the probe took dt units of
\* the clock.
Probe(x, o, dt) ==
    /\ exec[x].pc = "probe"
    /\ now' = now + dt
    /\ exec' = [exec EXCEPT ![x].pc = "create",
                            ![x].result = checkServiceStatus(o, dt)]
    /\ UNCHANGED <<cronSecret, registry, checks, downtimeTrackers, schedulerState,
                   activeTasks, tasksCreated, initialized, slackLog, lastResponse,
                   streak>>

\* The tracker code that follows a successful insert, up to the next await
\* (sendSlackAlert) or to the end of the loop body.
TrackResult(x) ==
    LET r == exec[x]
        d == r.driver
        e == r.endpoints[r.i]
        t0 == GetTracker(d, e)
        \* upCount / downCount: kept by the route only; the callback's copy
        \* of them is never read.
        counted == [r EXCEPT !.upCount = IF r.result.status = "UP" THEN @ + 1 ELSE @,
                             !.downCount = IF r.result.status = "UP" THEN @ ELSE @ + 1]
    IN  IF r.result.status = "DOWN"
        THEN LET t1 == CountFailure(t0, now)
             IN  /\ streak' = [streak EXCEPT ![d][e] = @ + 1]
                 /\ IF ShouldAlert(t1, d)
                    THEN /\ slackLog' = Append(slackLog, Alert(d, e, "down", streak[d][e] + 1, t1, now))
                         /\ downtimeTrackers' =
                               [downtimeTrackers EXCEPT ![d] = PutTracker(@, e, t1)]
                         /\ exec' = [exec EXCEPT ![x] = [counted EXCEPT !.pc = "slack",
                                                                !.alert = Len(slackLog) + 1]]
                         /\ UNCHANGED lastResponse
                    ELSE /\ slackLog' = slackLog
                         /\ downtimeTrackers' =
                               [downtimeTrackers EXCEPT ![d] =
                                   PutTracker(@, e, SetLastStatus(t1, "DOWN"))]
                         /\ EndOfIteration(x, counted)
        ELSE /\ streak' = [streak EXCEPT ![d][e] = 0]
             /\ IF ShouldRecover(t0)
                THEN /\ slackLog' = Append(slackLog, Alert(d, e, "recovery", streak[d][e], t0, now))
                     /\ downtimeTrackers' =
                           [downtimeTrackers EXCEPT ![d] = PutTracker(@, e, t0)]
                     /\ exec' = [exec EXCEPT ![x] = [counted EXCEPT !.pc = "slack",
                                                                !.alert = Len(slackLog) + 1]]
                     /\ UNCHANGED lastResponse
                ELSE /\ slackLog' = slackLog
                     /\ downtimeTrackers' =
                           [downtimeTrackers EXCEPT ![d] =
                               PutTracker(@, e, SetLastStatus(ResetTracker(t0), "UP"))]
                     /\ EndOfIteration(x, counted)

\* prisma.checks.create(...) returns (ok: the record is stored, and the
\* tracker code runs) or throws.
Create(x, ok) ==
    /\ exec[x].pc = "create"
    /\ IF ok
       THEN /\ checks' = checks (+) SetToBag({[endpoint_id |-> exec[x].endpoints[exec[x].i],
                                                status |-> exec[x].result.status]})
            /\ TrackResult(x)
       ELSE /\ CatchError(x)
            /\ UNCHANGED <<checks, downtimeTrackers, slackLog, streak>>
    /\ UNCHANGED <<cronSecret, registry, schedulerState, activeTasks, tasksCreated,
                   initialized, now>>

\* `await sendSlackAlert(...)` ends: with the call returning, the rest of
\* the branch that raised the alert runs, then
\* `tracker.lastStatus = result.status`; with the call throwing, the
\* handler's catch block runs.
SlackReturn(x, webhookUrl, fetched) ==
    /\ exec[x].pc = "slack"
    /\ LET r == exec[x]
           d == r.driver
           e == r.endpoints[r.i]
           t == downtimeTrackers[d][e]
           s == sendSlackAlert(webhookUrl, fetched)
       IN  /\ slackLog' = [slackLog EXCEPT ![r.alert].delivery = s.delivery]
           /\ IF s.threw
              THEN /\ CatchError(x)
                   /\ UNCHANGED downtimeTrackers
              ELSE /\ downtimeTrackers' =
                         [downtimeTrackers EXCEPT ![d][e] =
                             IF r.result.status = "DOWN"
                             THEN SetLastStatus(MarkAlertSent(t), "DOWN")
                             ELSE SetLastStatus(ResetTracker(t), "UP")]
                   /\ EndOfIteration(x, r)
    /\ UNCHANGED <<cronSecret, registry, checks, schedulerState, activeTasks,
                   tasksCreated, initialized, now, streak>>

(***************************************************************************)
(* Endpoint registration: POST /api/endpoints.                             *)
(***************************************************************************)
\* The position of an endpoint's name in name order.
NameRank(e) == IF e = "e1" THEN 1 ELSE 2

\* `findMany({ orderBy: { name: "asc" } })` over a set of endpoints.
ByName(S) ==
    CHOOSE q \in [1..Cardinality(S) -> S] :
        \A i, j \in 1..Cardinality(S) : i < j => NameRank(q[i]) < NameRank(q[j])

\* The endpoints of a list.
Range(q) == {q[i] : i \in 1..Len(q)}

\* The request arrives with a well-formed body naming endpoint e, and runs
\* up to the look-ups of the name and the URL.
EndpointPost(x, e) ==
    /\ FirstFree(x)
    /\ exec' = [exec EXCEPT ![x] =
                   [IdleExec EXCEPT !.driver = "post", !.pc = "findExisting",
                                    !.endpoints = <<e>>, !.i = 1]]
    /\ lastResponse' = NoResponse
    /\ UNCHANGED <<cronSecret, registry, checks, downtimeTrackers, schedulerState,
                   activeTasks, tasksCreated, initialized, now, slackLog, streak>>

\* findFirst({name}) / findUnique({url}) return: 409 if the endpoint is
\* there, else on to `await prisma.endpoints.create`.
PostFindExisting(x, ok) ==
    /\ exec[x].pc = "findExisting"
    /\ LET r == exec[x]
       IN  IF ~ok THEN CatchError(x)
           ELSE IF r.endpoints[1] \in Range(registry)
           THEN Return(x, Answer(r, 409, "exists", 0))
           ELSE /\ exec' = [exec EXCEPT ![x].pc = "insertEndpoint"]
                /\ UNCHANGED lastResponse
    /\ UNCHANGED <<cronSecret, registry, checks, downtimeTrackers, schedulerState,
                   activeTasks, tasksCreated, initialized, now, slackLog, streak>>

\* prisma.endpoints.create returns, or throws (P2002 when another request
\* stored the endpoint meanwhile: 409; anything else: 500).
PostInsertEndpoint(x, ok) ==
    /\ exec[x].pc = "insertEndpoint"
    /\ LET r == exec[x]
           e == r.endpoints[1]
       IN  IF e \in Range(registry)
           THEN /\ Return(x, Answer(r, 409, "exists", 0))
                /\ UNCHANGED registry
           ELSE IF ~ok
           THEN /\ CatchError(x)
                /\ UNCHANGED registry
           ELSE /\ registry' = ByName(Range(registry) \cup {e})
                /\ exec' = [exec EXCEPT ![x].pc = "initialProbe"]
                /\ UNCHANGED lastResponse
    /\ UNCHANGED <<cronSecret, checks, downtimeTrackers, schedulerState,
                   activeTasks, tasksCreated, initialized, now, slackLog, streak>>

\* `const initialCheck = await checkServiceStatus(url)` returns.
PostInitialProbe(x, o) ==
    /\ exec[x].pc = "initialProbe"
    /\ now' = now + 1
    /\ exec' = [exec EXCEPT ![x].pc = "initialCreate",
                            ![x].result = checkServiceStatus(o, 1)]
    /\ UNCHANGED <<cronSecret, registry, checks, downtimeTrackers, schedulerState,
                   activeTasks, tasksCreated, initialized, slackLog, lastResponse,
                   streak>>

\* The insert of the initial check returns (201 with the endpoint) or
\* throws (500).  No tracker is touched.
PostInitialCreate(x, ok) ==
    /\ exec[x].pc = "initialCreate"
    /\ IF ok
       THEN /\ checks' = checks (+) SetToBag({[endpoint_id |-> exec[x].endpoints[1],
                                                status |-> exec[x].result.status]})
            /\ Return(x, Answer(exec[x], 201, "created", 0))
       ELSE /\ CatchError(x)
            /\ UNCHANGED checks
    /\ UNCHANGED <<cronSecret, registry, downtimeTrackers, schedulerState,
                   activeTasks, tasksCreated, initialized, now, slackLog, streak>>

(***************************************************************************)
(* Process restart.                                                        *)
(***************************************************************************)
\* Faulty variant of RestartedTrackers: the trackers outlive the process.
RestartedTrackers_Persisted == downtimeTrackers

\* `const downtimeTrackers = new Map()` at module load: the maps of a
\* process that has just started.
RestartedTrackers == [d \in Drivers |-> <<>>]

\* The server process ends and a new one starts: the tables and the
\* environment stay, the alerts already handed over stay, and everything
\* the process held in memory (the module-level tracker maps, the globals
\* of the scheduler and of the initialisation, the scheduled tasks and the
\* running handlers) is gone.
Restart ==
    /\ downtimeTrackers' = RestartedTrackers
    /\ exec' = [x \in Execs |-> IdleExec]
    /\ schedulerState' = [isRunning |-> FALSE, task |-> NoTask]
    /\ activeTasks' = {}
    /\ initialized' = FALSE
    /\ lastResponse' = NoResponse
    /\ streak' = [d \in Drivers |-> [e \in EndpointIds |-> 0]]
    /\ UNCHANGED <<cronSecret, registry, checks, tasksCreated, now, slackLog>>

(***************************************************************************)
(* Queries: GET /api/day-detail and GET /api/status.                       *)
(*                                                                         *)
(* Times are milliseconds since the epoch, as Date.getTime() gives them.   *)
(* The rows the queries read carry checked_at, the time the table gave     *)
(* them at their insert.                                                   *)
(***************************************************************************)
MsPerHour == 60 * 60 * 1000
MsPerDay == 24 * 60 * 60 * 1000

\* `const IST_OFFSET_MS = 5.5 * 60 * 60 * 1000`
IST_OFFSET_MS == (11 * 60 * 60 * 1000) \div 2

\* Date.UTC(year, monthIndex, day, 0, 0, 0, 0), for the dates of January
\* 1970.
DateUTC(year, monthIndex, day) == (day - 1) * MsPerDay

\* The `date` parameters a request may carry ("YYYY-MM-DD", split at '-'
\* and made numbers), Undefined for none.
DateParams ==
    {Undefined} \cup {Some([year |-> 1970, month |-> 1, day |-> d]) : d \in 1..MaxDay}

\* The `endpointId` parameters a request may carry.
EndpointIdParams == {Undefined, Some("e1"), Some("e2"), Some("e9")}

\* (number(up / total * 100)).toFixed(digits), as the integer number of
\* 10^-digits it prints.
ToFixed(up, total, digits) == Round(up * 100 * (10 ^ digits), total)

\* The rows of the checks table.
Rows == BagToSet(checks)

\* Faulty variant of startOfDay: the day is taken as the UTC day.
startOfDay_UtcDay(date) == DateUTC(date.year, date.month - 1, date.day)

\* `startOfDay`: midnight of the date in UTC, less the offset.
startOfDay(date) == DateUTC(date.year, date.month - 1, date.day) - IST_OFFSET_MS

\* `endOfDay`: + 24 hours - 1 ms
endOfDay(date) == startOfDay(date) + (24 * 60 * 60 * 1000) - 1

\* prisma.checks.findMany({ where: { endpoint_id, checked_at: { gte, lte } } })
DayChecks(endpointId, date) ==
    {c \in Rows : /\ c.endpoint_id = endpointId
                  /\ c.checked_at >= startOfDay(date)
                  /\ c.checked_at <= endOfDay(date)}

\* Faulty variant of InHour: the first millisecond of the hour is left out.
InHour_AfterStart(checkTime, istHourStart, istHourEnd) ==
    checkTime > istHourStart /\ checkTime <= istHourEnd

\* `checkTime >= istHourStart && checkTime <= istHourEnd`
InHour(checkTime, istHourStart, istHourEnd) ==
    checkTime >= istHourStart /\ checkTime <= istHourEnd

\* One entry of hourlyData, before the filter.
HourBucket(cs, date, istHour) ==
    LET istHourStart == startOfDay(date) + (istHour * 60 * 60 * 1000)
        istHourEnd == istHourStart + (60 * 60 * 1000) - 1
        hourChecks == {c \in cs : InHour(c.checked_at, istHourStart, istHourEnd)}
    IN  [hour |-> istHour,
         totalChecks |-> Cardinality(hourChecks),
         upChecks |-> Cardinality({c \in hourChecks : c.status = "UP"}),
         downChecks |-> Cardinality({c \in hourChecks : c.status = "DOWN"})]

\* hourlyData: the 24 entries, those without a check filtered out.
hourlyData(cs, date) ==
    {b \in {HourBucket(cs, date, h) : h \in 0..23} : b.totalChecks > 0}

\* What a query answers.  uptime is Undefined where the answer has no
\* uptime field.
QueryAnswer(route, request, status, body) ==
    [driver |-> route, request |-> request, status |-> status, body |-> body,
     hasData |-> FALSE, checks |-> {}, uptime |-> Undefined, hourlyData |-> {},
     timelineData |-> <<>>, incidents |-> <<>>, services |-> <<>>]

\* `orderBy: { checked_at: "asc" }`: the lists of the rows of S in the
\* order of their times; the table gives rows of one time in any order.
RECURSIVE OrderedByCheckedAt(_)
OrderedByCheckedAt(S) ==
    IF S = {} THEN {<<>>}
    ELSE UNION {{<<c>> \o q : q \in OrderedByCheckedAt(S \ {c})} :
                   c \in {c \in S : \A d \in S : c.checked_at <= d.checked_at}}

\* `durationFormatted` of a known duration: the pieces of the template
\* string, `${minutes}m ${seconds}s` or `${seconds}s`.
FormatDuration(durationMs) ==
    LET totalSeconds == durationMs \div 1000
        minutes == totalSeconds \div 60
        seconds == totalSeconds % 60
    IN  IF minutes > 0 THEN <<minutes, "m ", seconds, "s">> ELSE <<seconds, "s">>

\* Faulty variant of nextUpCheck: the last UP check after index i.
nextUpCheck_Last(cs, i) ==
    LET later == {j \in (i + 1)..Len(cs) : cs[j].status = "UP"}
    IN  IF later = {} THEN 0 ELSE CHOOSE j \in later : \A k \in later : j >= k

\* `checks.find((check, idx) => idx > checks.indexOf(c) && check.status ===
\* "UP")`, c being the check at index i: the index found, 0 for none.
nextUpCheck(cs, i) ==
    LET later == {j \in (i + 1)..Len(cs) : cs[j].status = "UP"}
    IN  IF later = {} THEN 0 ELSE CHOOSE j \in later : \A k \in later : j <= k

\* `c.checked_at === lastCheck.checked_at`, c being the check at index i:
\* checked_at is a Date object, one for each row, and === on objects is
\* identity.
IsLastCheck(cs, i) == i = Len(cs)

\* The incident of the DOWN check at index i of the list.
incident(cs, i) ==
    LET j == nextUpCheck(cs, i)
        durationMs == cs[j].checked_at - cs[i].checked_at
    IN  [timestamp |-> cs[i].checked_at,
         durationMs |-> IF j # 0 THEN Some(durationMs) ELSE Undefined,
         duration |-> IF j # 0 THEN FormatDuration(durationMs)
                      ELSE IF IsLastCheck(cs, i) THEN <<"Ongoing">>
                      ELSE <<"~1m">>]

\* `downtimeChecks.map(...)`: the incidents of the DOWN checks, in the
\* order of the list.
RECURSIVE incidentsFrom(_, _)
incidentsFrom(cs, i) ==
    IF i > Len(cs) THEN <<>>
    ELSE IF cs[i].status = "DOWN" THEN <<incident(cs, i)>> \o incidentsFrom(cs, i + 1)
    ELSE incidentsFrom(cs, i + 1)

\* GET /api/day-detail?endpointId=..&date=.., found being what
\* prisma.checks.findMany gives.
dayDetail(endpointId, dateParam, found) ==
    LET request == <<endpointId, dateParam>>
    IN  IF endpointId = Undefined \/ dateParam = Undefined
        THEN QueryAnswer("dayDetail", request, 400, "endpointId and date are required")
        ELSE IF endpointId[1] \notin Range(registry)
        THEN QueryAnswer("dayDetail", request, 404, "Endpoint not found")
        ELSE LET cs == Range(found)
                 upChecks == Cardinality({c \in cs : c.status = "UP"})
             IN  IF Len(found) = 0
                 THEN QueryAnswer("dayDetail", request, 200,
                                  "No monitoring data available for this day")
                 ELSE [QueryAnswer("dayDetail", request, 200, "data") EXCEPT
                          !.hasData = TRUE,
                          !.checks = cs,
                          !.uptime = Some(ToFixed(upChecks, Len(found), 2)),
                          !.hourlyData = hourlyData(cs, dateParam[1]),
                          !.timelineData = found,
                          !.incidents = incidentsFrom(found, 1)]

\* The handler of GET /api/day-detail.  It only reads.
DayDetailRequest(endpointId, dateParam) ==
    /\ \E found \in (IF endpointId = Undefined \/ dateParam = Undefined THEN {<<>>}
                      ELSE OrderedByCheckedAt(DayChecks(endpointId[1], dateParam[1]))) :
           lastResponse' = dayDetail(endpointId, dateParam, found)
    /\ UNCHANGED <<cronSecret, registry, checks, downtimeTrackers, exec, schedulerState,
                   activeTasks, tasksCreated, initialized, now, slackLog, streak>>

\* The offsets from UTC of the server's local time.
ServerOffsets == {0, IST_OFFSET_MS}

\* The `days` parameters a request may carry, parseInt made.
DaysParams == {Some(1), Some(2)}

\* `endDate.setHours(23, 59, 59, 999)`: the end of endDate's local day.
rollupEnd(endDate, tz) == (((endDate + tz) \div MsPerDay) + 1) * MsPerDay - 1 - tz

\* `startDate.setDate(startDate.getDate() - days); setHours(0, 0, 0, 0)`
rollupStart(endDate, days, tz) == (((endDate + tz) \div MsPerDay) - days) * MsPerDay - tz

\* The rows of an endpoint with startDate <= checked_at <= endDate.
RollupChecks(endpointId, startDate, endDate) ==
    {c \in Rows : /\ c.endpoint_id = endpointId
                  /\ c.checked_at >= startDate
                  /\ c.checked_at <= endDate}

\* DATE(checked_at) of a TIMESTAMP column holding UTC: the day number.
SqlDate(checkedAt) == checkedAt \div MsPerDay

\* daily_aggregates: GROUP BY DATE(checked_at)
dailyStats(cs) ==
    {[date |-> d,
      total_checks |-> Cardinality({c \in cs : SqlDate(c.checked_at) = d}),
      up_checks |-> Cardinality({c \in cs : SqlDate(c.checked_at) = d /\ c.status = "UP"}),
      down_checks |-> Cardinality({c \in cs : SqlDate(c.checked_at) = d
                                              /\ c.status = "DOWN"})]
        : d \in {SqlDate(c.checked_at) : c \in cs}}

\* The sum of f over a finite set of records.
RECURSIVE SumOver(_, _)
SumOver(S, field) ==
    IF S = {} THEN 0
    ELSE LET s == CHOOSE s \in S : TRUE
         IN  s[field] + SumOver(S \ {s}, field)

\* Faulty variant of overallUptime: the mean of the uptimes of the days.
RECURSIVE SumOfDailyUptimes(_)
SumOfDailyUptimes(stats) ==
    IF stats = {} THEN 0
    ELSE LET s == CHOOSE s \in stats : TRUE
         IN  ToFixed(s.up_checks, s.total_checks, 1) + SumOfDailyUptimes(stats \ {s})

overallUptime_MeanOfDays(stats) ==
    IF stats # {} THEN Some(Round(SumOfDailyUptimes(stats), Cardinality(stats)))
    ELSE Some(0)

\* `uptime`: the share of the UP checks of all days, in tenths of a percent
\* as toFixed(1) writes it.
overallUptime(stats) ==
    LET totalChecks == SumOver(stats, "total_checks")
        totalUpChecks == SumOver(stats, "up_checks")
    IN  IF totalChecks > 0 THEN Some(ToFixed(totalUpChecks, totalChecks, 1))
        ELSE Some(0)

\* The entry of one endpoint in `services`.
service(endpointId, startDate, endDate) ==
    LET stats == dailyStats(RollupChecks(endpointId, startDate, endDate))
    IN  [id |-> endpointId,
         uptime |-> overallUptime(stats),
         dailyData |-> stats]

\* `endDate` and `startDate` of GET /api/status?endDate=..&days=.., on a
\* server whose local time is tz ahead of UTC.  `new Date("YYYY-MM-DD")` is
\* midnight of the date in UTC.
rollupWindow(endDateParam, daysParam, tz) ==
    LET days == IF daysParam # Undefined THEN daysParam[1] ELSE 90
        parsed == IF endDateParam # Undefined
                  THEN DateUTC(endDateParam[1].year, endDateParam[1].month - 1,
                               endDateParam[1].day)
                  ELSE now * UnitSeconds * 1000
    IN  [startDate |-> rollupStart(parsed, days, tz), endDate |-> rollupEnd(parsed, tz)]

\* GET /api/status: one entry of `services` for each endpoint.
statusRollup(endDateParam, daysParam, tz) ==
    LET w == rollupWindow(endDateParam, daysParam, tz)
    IN  [QueryAnswer("status", <<endDateParam, daysParam, tz>>, 200, "services") EXCEPT
            !.services = [i \in 1..Len(registry) |->
                             service(registry[i], w.startDate, w.endDate)]]

\* The handler of GET /api/status.  It only reads.
StatusRequest(endDateParam, daysParam, tz) ==
    /\ lastResponse' = statusRollup(endDateParam, daysParam, tz)
    /\ UNCHANGED <<cronSecret, registry, checks, downtimeTrackers, exec, schedulerState,
                   activeTasks, tasksCreated, initialized, now, slackLog, streak>>

(***************************************************************************)
(* Specifications.                                                         *)
(***************************************************************************)
Registries == {<<>>, <<"e1">>, <<"e1", "e2">>}

Init ==
    /\ cronSecret \in Secrets
    /\ registry \in Registries
    /\ checks = EmptyBag
    /\ downtimeTrackers = [d \in Drivers |-> <<>>]
    /\ exec = [x \in Execs |-> IdleExec]
    /\ schedulerState = [isRunning |-> FALSE, task |-> NoTask]
    /\ activeTasks = {}
    /\ tasksCreated = 0
    /\ initialized = FALSE
    /\ now = 0
    /\ slackLog = <<>>
    /\ lastResponse = NoResponse
    /\ streak = [d \in Drivers |-> [e \in EndpointIds |-> 0]]

\* The steps of a handler that is already running; the clock stops at limit.
Resume(limit) ==
    \E x \in Execs :
        \/ \E ok \in BOOLEAN : FindMany(x, ok)
        \/ now < limit /\ \E o \in ProbeOutcomes : Probe(x, o, 1)
        \/ \E ok \in BOOLEAN : Create(x, ok)
        \/ \E w \in WebhookUrls : \E f \in FetchOutcomes : SlackReturn(x, w, f)

Lifecycle == AppInit \/ SchedulerStartRoute \/ SchedulerStop

\* A scheduled task fires.
Tick == \E x \in Execs : \E t \in activeTasks : SchedTick(x, t)

\* A trigger request arrives.
Trigger == \E x \in Execs : \E h \in AuthHeaders : CronRequest(x, h)

\* The whole program: handlers start whenever their trigger arrives.
Next == Lifecycle \/ Tick \/ Trigger \/ Resume(MaxTimeConc)

Spec == Init /\ [][Next]_vars

\* Cycles run one at a time: a handler starts only when none is running.
NextSeq ==
    \/ Lifecycle
    \/ NoneInFlight /\ Tick
    \/ NoneInFlight /\ Trigger
    \/ Resume(MaxTime)

SpecSeq == Init /\ [][NextSeq]_vars

\* Overlapping trigger requests on a deployment that never starts the
\* in-process scheduler, with the secret set and one endpoint registered.
InitOverlap ==
    /\ Init
    /\ cronSecret = Some(<<"k">>)
    /\ registry = <<"e1">>

NextOverlap == Trigger \/ Resume(MaxTimeOverlap)

SpecOverlap == InitOverlap /\ [][NextOverlap]_vars

\* Trigger requests and endpoint registrations on a deployment that never
\* starts the in-process scheduler, with the secret set.
InitRegistry ==
    /\ Init
    /\ cronSecret = Some(<<"k">>)
    /\ registry \in {<<>>, <<"e1">>}

\* A registration request arrives.
Register == \E x \in Execs : \E e \in EndpointIds : EndpointPost(x, e)

\* The steps of a registration that is already running.
ResumePost(limit) ==
    \E x \in Execs :
        \/ \E ok \in BOOLEAN : PostFindExisting(x, ok)
        \/ \E ok \in BOOLEAN : PostInsertEndpoint(x, ok)
        \/ now < limit /\ \E o \in ProbeOutcomes : PostInitialProbe(x, o)
        \/ \E ok \in BOOLEAN : PostInitialCreate(x, ok)

NextRegistry ==
    \/ \E x \in Execs : CronRequest(x, Some(<<"k">>))
    \/ Register
    \/ Resume(MaxTimeRegistry)
    \/ ResumePost(MaxTimeRegistry)

SpecRegistry == InitRegistry /\ [][NextRegistry]_vars

\* Cycles run one at a time, on one endpoint, in a process that is
\* restarted now and then.
NextRestart ==
    \/ Lifecycle
    \/ NoneInFlight /\ Tick
    \/ NoneInFlight /\ \E x \in Execs : CronRequest(x, Some(<<"k">>))
    \/ Resume(MaxTimeRestart)
    \/ Restart

SpecRestart == InitOverlap /\ [][NextRestart]_vars

\* The units of the clock a probe may take: an answer at once, or a slow
\* one.
ProbeDurations == {0, 1}

\* The steps of a running handler, probes taking their time.
ResumeTimed(limit) ==
    \E x \in Execs :
        \/ \E ok \in BOOLEAN : FindMany(x, ok)
        \/ \E o \in ProbeOutcomes : \E dt \in ProbeDurations :
              now + dt <= limit /\ Probe(x, o, dt)
        \/ \E ok \in BOOLEAN : Create(x, ok)
        \/ \E w \in WebhookUrls : \E f \in FetchOutcomes : SlackReturn(x, w, f)

\* The scheduler ticking every 30 seconds from application start, each
\* cycle done before the next tick.
NextClock ==
    \/ AppInit
    \/ NoneInFlight /\ now < MaxTimeClock
          /\ \E x \in Execs : \E t \in activeTasks : TimedSchedTick(x, t)
    \/ ResumeTimed(MaxTimeClock)

SpecClock == InitOverlap /\ [][NextClock]_vars

\* The steps of a running handler, its probes ending in any outcome.
ResumeAnyOutcome(limit) ==
    \E x \in Execs :
        \/ \E ok \in BOOLEAN : FindMany(x, ok)
        \/ now < limit /\ \E o \in AllProbeOutcomes : Probe(x, o, 1)
        \/ \E ok \in BOOLEAN : Create(x, ok)
        \/ \E w \in WebhookUrls : \E f \in FetchOutcomes : SlackReturn(x, w, f)

\* Trigger requests one at a time, on one endpoint that answers in every
\* way.
NextProbe ==
    \/ NoneInFlight /\ \E x \in Execs : CronRequest(x, Some(<<"k">>))
    \/ ResumeAnyOutcome(MaxTimeProbe)

SpecProbe == InitOverlap /\ [][NextProbe]_vars

\* The times a stored check may carry: around the limits of the window of
\* 1970-01-02, of its first hour, and around midnight UTC.
CheckTimes ==
    LET d == [year |-> 1970, month |-> 1, day |-> 2]
    IN  {startOfDay(d) - 1, startOfDay(d), startOfDay(d) + MsPerHour - 1,
         startOfDay(d) + MsPerHour, DateUTC(1970, 0, 2) - 1, DateUTC(1970, 0, 2),
         endOfDay(d) - MsPerHour, endOfDay(d), endOfDay(d) + 1, DateUTC(1970, 0, 3)}

\* The rows a store may hold.
StoreRows ==
    {[endpoint_id |-> "e1", status |-> s, checked_at |-> t] :
        s \in {"UP", "DOWN"}, t \in CheckTimes}
    \cup {[endpoint_id |-> "e2", status |-> "DOWN", checked_at |-> DateUTC(1970, 0, 2)]}

\* The stores of at most n rows.
RECURSIVE Stores(_)
Stores(n) ==
    IF n = 0 THEN {{}}
    ELSE Stores(n - 1) \cup {S \cup {r} : S \in Stores(n - 1), r \in StoreRows}

\* The checks of some past cycles are stored, and queries arrive.
InitQuery ==
    /\ cronSecret = Some(<<"k">>)
    /\ registry = <<"e1", "e2">>
    /\ checks \in {SetToBag(S) : S \in Stores(MaxRows)}
    /\ downtimeTrackers = [d \in Drivers |-> <<>>]
    /\ exec = [x \in Execs |-> IdleExec]
    /\ schedulerState = [isRunning |-> FALSE, task |-> NoTask]
    /\ activeTasks = {}
    /\ tasksCreated = 0
    /\ initialized = FALSE
    /\ now = 0
    /\ slackLog = <<>>
    /\ lastResponse = NoResponse
    /\ streak = [d \in Drivers |-> [e \in EndpointIds |-> 0]]

NextQuery ==
    \/ \E id \in EndpointIdParams : \E dp \in DateParams : DayDetailRequest(id, dp)
    \/ \E dp \in DateParams : \E n \in DaysParams : \E tz \in ServerOffsets :
           StatusRequest(dp, n, tz)

SpecQuery == InitQuery /\ [][NextQuery]_vars

\* The times a stored check may carry when incidents are looked at: the
\* first millisecond of the window of 1970-01-02, 45 s and 125 s after it,
\* and the last millisecond.
IncidentTimes ==
    LET d == [year |-> 1970, month |-> 1, day |-> 2]
    IN  {startOfDay(d), startOfDay(d) + 45000, startOfDay(d) + 125000, endOfDay(d)}

\* The rows of endpoint e1 that a store may hold under primary key id.
IncidentRows(id) ==
    {[id |-> id, endpoint_id |-> "e1", status |-> s, checked_at |-> t] :
        s \in {"UP", "DOWN"}, t \in IncidentTimes}

\* The stores of rows with the keys 1..n.
RECURSIVE IncidentStores(_)
IncidentStores(n) ==
    IF n = 0 THEN {{}}
    ELSE {S \cup {r} : S \in IncidentStores(n - 1), r \in IncidentRows(n)}

\* The checks of one day of endpoint e1 are stored, some at the same time.
InitIncident ==
    /\ cronSecret = Some(<<"k">>)
    /\ registry = <<"e1">>
    /\ checks \in {SetToBag(S) : S \in UNION {IncidentStores(n) : n \in 0..MaxRowsIncident}}
    /\ downtimeTrackers = [d \in Drivers |-> <<>>]
    /\ exec = [x \in Execs |-> IdleExec]
    /\ schedulerState = [isRunning |-> FALSE, task |-> NoTask]
    /\ activeTasks = {}
    /\ tasksCreated = 0
    /\ initialized = FALSE
    /\ now = 0
    /\ slackLog = <<>>
    /\ lastResponse = NoResponse
    /\ streak = [d \in Drivers |-> [e \in EndpointIds |-> 0]]

NextIncident ==
    \E id \in EndpointIdParams : \E dp \in DateParams : DayDetailRequest(id, dp)

SpecIncident == InitIncident /\ [][NextIncident]_vars

\* The times a stored check may carry when days are summed: noon and
\* midnight UTC of 1970-01-01 and 1970-01-02.
RollupTimes ==
    {DateUTC(1970, 0, 1) + (12 * MsPerHour), DateUTC(1970, 0, 2),
     DateUTC(1970, 0, 2) + (12 * MsPerHour), DateUTC(1970, 0, 3)}

\* The rows of endpoint e1 that a store may hold then.
RollupRows ==
    {[endpoint_id |-> "e1", status |-> s, checked_at |-> t] :
        s \in {"UP", "DOWN"}, t \in RollupTimes}

\* The stores of at most n of these rows.
RECURSIVE RollupStores(_)
RollupStores(n) ==
    IF n = 0 THEN {{}}
    ELSE RollupStores(n - 1) \cup {S \cup {r} : S \in RollupStores(n - 1), r \in RollupRows}

\* The checks of some days of endpoint e1 are stored.
InitRollup ==
    /\ cronSecret = Some(<<"k">>)
    /\ registry = <<"e1">>
    /\ checks \in {SetToBag(S) : S \in RollupStores(MaxRowsRollup)}
    /\ downtimeTrackers = [d \in Drivers |-> <<>>]
    /\ exec = [x \in Execs |-> IdleExec]
    /\ schedulerState = [isRunning |-> FALSE, task |-> NoTask]
    /\ activeTasks = {}
    /\ tasksCreated = 0
    /\ initialized = FALSE
    /\ now = 0
    /\ slackLog = <<>>
    /\ lastResponse = NoResponse
    /\ streak = [d \in Drivers |-> [e \in EndpointIds |-> 0]]

NextRollup ==
    \E dp \in DateParams : \E n \in DaysParams : \E tz \in ServerOffsets :
        StatusRequest(dp, n, tz)

SpecRollup == InitRollup /\ [][NextRollup]_vars

\* Cycles of both drivers on one endpoint, one at a time, long enough for
\* an outage, a recovery and a second outage in each driver.
NextAlternate ==
    \/ AppInit
    \/ NoneInFlight /\ Tick
    \/ NoneInFlight /\ \E x \in Execs : CronRequest(x, Some(<<"k">>))
    \/ Resume(MaxTimeAlternate)

SpecAlternate == InitOverlap /\ [][NextAlternate]_vars

\* POST requests to the trigger route, signed or not, overlapping.
NextPost ==
    \/ \E x \in Execs : \E signed \in BOOLEAN : \E h \in AuthHeaders : CronPost(x, signed, h)
    \/ Resume(MaxTimePost)

SpecPost == Init /\ [][NextPost]_vars

(***************************************************************************)
(* Vocabulary of the properties.                                           *)
(***************************************************************************)
Trackers == Drivers \X EndpointIds

\* The step applies a DOWN result to the tracker of endpoint e in driver d.
DownApplied(d, e) == streak'[d][e] = streak[d][e] + 1

\* The step hands one alert of this kind for (d, e) to sendSlackAlert.
Emitted(d, e, kind) ==
    /\ Len(slackLog') = Len(slackLog) + 1
    /\ slackLog'[Len(slackLog')].driver = d
    /\ slackLog'[Len(slackLog')].endpoint = e
    /\ slackLog'[Len(slackLog')].kind = kind

\* The alerts of this kind raised so far for (d, e).
AlertsOf(d, e, kind) ==
    {i \in 1..Len(slackLog) :
        slackLog[i].driver = d /\ slackLog[i].endpoint = e /\ slackLog[i].kind = kind}

\* Handler x is at the insert of an UP result for (d, e), and the step is
\* the insert succeeding: the UP result is processed.
UpProcessed(x, d, e) ==
    /\ exec[x].pc = "create"
    /\ exec[x].driver = d
    /\ exec[x].endpoints[exec[x].i] = e
    /\ exec[x].result.status = "UP"
    /\ exec'[x].pc # "create"
    /\ checks' # checks

\* The tracker is in the reset state.
IsReset(t) ==
    t.consecutiveFailures = 0 /\ t.firstFailureTime = NoTime /\ ~t.alertSent

\* The request carries the secret: bare, or after "Bearer ".
CarriesSecret(authHeader, secret) ==
    authHeader = Some(secret) \/ authHeader = Some(BearerPrefix \o secret)

\* Nothing but the answer changes.
OnlyAnswered ==
    UNCHANGED <<cronSecret, registry, checks, downtimeTrackers, exec, schedulerState,
                activeTasks, tasksCreated, initialized, now, slackLog, streak>>

(***************************************************************************)
(* C1.  With cycles run one at a time, the k-th DOWN result of a run of    *)
(* consecutive DOWN results raises a downtime alert if and only if k is    *)
(* the driver's alert threshold; no other step raises a downtime alert.    *)
(***************************************************************************)
C1_AlertExactlyAtThreshold ==
    [][\A p \in Trackers :
          LET d == p[1]
              e == p[2]
          IN  /\ DownApplied(d, e) =>
                    (Emitted(d, e, "down") <=> streak'[d][e] = ALERT_THRESHOLD_CHECKS(d))
              /\ ~DownApplied(d, e) => ~Emitted(d, e, "down")]_vars

\* A streak went past the threshold with exactly one downtime alert raised.
C1_Witness ==
    \E p \in Trackers :
        /\ streak[p[1]][p[2]] > ALERT_THRESHOLD_CHECKS(p[1])
        /\ Cardinality(AlertsOf(p[1], p[2], "down")) = 1

(***************************************************************************)
(* C2.  An UP result processed while the tracker has alertSent raises      *)
(* exactly one recovery alert, the processing leaves the tracker reset,    *)
(* and the UP result that follows an UP result raises no recovery alert.   *)
(***************************************************************************)
C2_RecoveryOnceThenReset ==
    [][\A x \in Execs : \A p \in Trackers :
          LET d == p[1]
              e == p[2]
          IN  /\ (UpProcessed(x, d, e) /\ GetTracker(d, e).alertSent)
                    => Emitted(d, e, "recovery")
              /\ (UpProcessed(x, d, e) /\ streak[d][e] = 0)
                    => ~Emitted(d, e, "recovery")
              /\ ( /\ exec[x].pc \in {"create", "slack"}
                   /\ exec[x].driver = d
                   /\ exec[x].endpoints[exec[x].i] = e
                   /\ exec[x].result.status = "UP"
                   /\ exec'[x].pc \in {"probe", "idle"}
                   /\ exec[x].pc = "create" => checks' # checks )
                    => IsReset(downtimeTrackers'[d][e])]_vars

(***************************************************************************)
(* C3.  A DOWN streak that an UP result ends below the threshold raises    *)
(* no alert: no downtime alert and no recovery alert belongs to a streak   *)
(* of length 1 .. threshold - 1.                                           *)
(***************************************************************************)
C3_SubThresholdSilent ==
    \A i \in 1..Len(slackLog) :
        ~(slackLog[i].k \in 1..(ALERT_THRESHOLD_CHECKS(slackLog[i].driver) - 1))

(***************************************************************************)
(* C4.  A failed insert for one endpoint does not end the cycle: the       *)
(* handler goes on to the next endpoint of its list.                       *)
(***************************************************************************)
C4_FailureDoesNotAbort ==
    [][\A x \in Execs :
          ( /\ exec[x].pc = "create"
            /\ exec'[x] # exec[x]
            /\ checks' = checks
            /\ exec[x].i < Len(exec[x].endpoints) )
              => (exec'[x].pc = "probe" /\ exec'[x].i = exec[x].i + 1)]_vars

(***************************************************************************)
(* C5.  Scheduler cycles never overlap: at most one activation of the      *)
(* scheduler callback is running.                                          *)
(***************************************************************************)
C5_NoOverlappingCycles ==
    Cardinality({x \in Execs : exec[x].driver = "sched" /\ InFlight(x)}) <= 1

(***************************************************************************)
(* C6.  Whatever start calls were made, at most one scheduled task is      *)
(* active.                                                                 *)
(***************************************************************************)
C6_AtMostOneTask == Cardinality(activeTasks) <= 1

\* Initialisation and the start route both ran, a stop in between, and the
\* scheduler is running its second task.
C6_Witness ==
    initialized /\ tasksCreated = 2 /\ schedulerState.isRunning
        /\ Cardinality(activeTasks) = 1

(***************************************************************************)
(* C7.  A scheduler cycle starts only for the task the scheduler holds     *)
(* (none once stopped, until a later start), and a stop changes neither a  *)
(* running cycle nor a tracker, the store or the alerts.                   *)
(***************************************************************************)
C7_StopCancelsOnlyFutureTicks ==
    [][/\ \A x \in Execs :
            (exec[x].pc = "idle" /\ exec'[x].driver = "sched")
                => (schedulerState.task # NoTask /\ exec'[x].task = schedulerState.task)
       /\ (schedulerState.task # NoTask /\ schedulerState'.task = NoTask)
            => UNCHANGED <<exec, downtimeTrackers, checks, slackLog, streak>>]_vars

\* A cycle whose task was stopped while it ran has returned with success,
\* and no task is scheduled.
C7_Witness ==
    /\ lastResponse.driver = "sched"
    /\ lastResponse.body = "success"
    /\ ~lastResponse.taskActive
    /\ schedulerState.task = NoTask
    /\ activeTasks = {}

(***************************************************************************)
(* C8.  With the secret configured, a trigger request that does not carry  *)
(* it (no header, or another value) is answered 401 Unauthorized and       *)
(* changes nothing else.                                                   *)
(***************************************************************************)
C8_UnauthorizedChangesNothing ==
    [][\A x \in Execs : \A h \in AuthHeaders :
          ( /\ cronSecret # Undefined
            /\ cronSecret # Some(<<>>)
            /\ ~CarriesSecret(h, cronSecret[1])
            /\ CronRequest(x, h) )
              => /\ lastResponse'.status = 401
                 /\ lastResponse'.body = "Unauthorized"
                 /\ OnlyAnswered]_vars

\* A request was refused while there were records and a running cycle.
C8_Witness ==
    /\ lastResponse.status = 401
    /\ checks # EmptyBag
    /\ \E x \in Execs : InFlight(x)

(***************************************************************************)
(* C9.  With the secret not configured, every trigger request is answered  *)
(* 500 "Server configuration error" and starts no cycle.                   *)
(***************************************************************************)
C9_MissingSecretIsConfigError ==
    [][\A x \in Execs : \A h \in AuthHeaders :
          ((cronSecret = Undefined \/ cronSecret = Some(<<>>)) /\ CronRequest(x, h))
              => /\ lastResponse'.status = 500
                 /\ lastResponse'.body = "Server configuration error"
                 /\ OnlyAnswered]_vars

\* The configuration error was answered while a scheduler cycle ran.
C9_Witness ==
    /\ cronSecret = Undefined
    /\ lastResponse.status = 500
    /\ lastResponse.body = "Server configuration error"
    /\ \E x \in Execs : InFlight(x)

(***************************************************************************)
(* C10.  A cycle that finds the endpoint list empty reports success with   *)
(* checked = 0, and adds no record, changes no tracker, raises no alert.   *)
(***************************************************************************)
C10_EmptyListIsNoOp ==
    [][\A x \in Execs :
          (Len(registry) = 0 /\ FindMany(x, TRUE))
              => /\ lastResponse'.body = "No endpoints to monitor"
                 /\ lastResponse'.status = (IF exec[x].driver = "cron" THEN 200 ELSE 0)
                 /\ lastResponse'.checked = 0
                 /\ exec'[x].pc = "idle"
                 /\ UNCHANGED <<checks, downtimeTrackers, slackLog, streak, now>>]_vars

\* The trigger route answered a cycle that found the list empty.
C10_Witness ==
    /\ Len(registry) = 0
    /\ lastResponse.driver = "cron"
    /\ lastResponse.body = "No endpoints to monitor"

\* The last alert raised for (d, e): its index in slackLog, 0 if none.
LastAlert(d, e) ==
    LET S == {i \in 1..Len(slackLog) :
                 slackLog[i].driver = d /\ slackLog[i].endpoint = e}
    IN  IF S = {} THEN 0 ELSE CHOOSE i \in S : \A j \in S : j <= i

(***************************************************************************)
(* C11.  Whatever becomes of the delivery (sent, rejected, refused by the  *)
(* sink, no webhook configured), the handler that awaited it leaves the    *)
(* tracker as a successful delivery does (alertSent set after a downtime   *)
(* alert, reset after a recovery alert), goes on with the next endpoint or *)
(* returns success, and makes no further attempt; with cycles run one at a *)
(* time, an alert that was not delivered is not raised again.              *)
(***************************************************************************)
C11_FailedDeliveryChangesNothing ==
    [][/\ \A x \in Execs : \A w \in WebhookUrls : \A f \in FetchOutcomes :
            SlackReturn(x, w, f) =>
                LET r == exec[x]
                    d == r.driver
                    e == r.endpoints[r.i]
                    t == downtimeTrackers[d][e]
                    u == downtimeTrackers'[d][e]
                IN  /\ IF r.result.status = "DOWN"
                       THEN /\ u.alertSent
                            /\ u.consecutiveFailures = t.consecutiveFailures
                            /\ u.firstFailureTime = t.firstFailureTime
                       ELSE IsReset(u)
                    /\ u.lastStatus = r.result.status
                    /\ IF r.i < Len(r.endpoints)
                       THEN exec'[x].pc = "probe" /\ exec'[x].i = r.i + 1
                       ELSE exec'[x].pc = "idle" /\ lastResponse'.body = "success"
                    /\ Len(slackLog') = Len(slackLog)
       /\ \A p \in Trackers :
            LET i == LastAlert(p[1], p[2])
            IN  (i # 0 /\ slackLog[i].delivery \in {"failed", "unconfigured"})
                    => ~Emitted(p[1], p[2], slackLog[i].kind)]_vars

\* A downtime alert whose delivery failed, its streak running on past the
\* threshold with no second downtime alert.
C11_Witness ==
    \E p \in Trackers :
        /\ streak[p[1]][p[2]] > ALERT_THRESHOLD_CHECKS(p[1])
        /\ Cardinality(AlertsOf(p[1], p[2], "down")) = 1
        /\ \A i \in AlertsOf(p[1], p[2], "down") : slackLog[i].delivery = "failed"
        /\ GetTracker(p[1], p[2]).alertSent

(***************************************************************************)
(* C12.  Every check record is stored by a check cycle, one per endpoint   *)
(* of the cycle's list: a step that changes the checks table is a cycle    *)
(* handler's insert for the endpoint it is at, adds that one record, and   *)
(* the handler moves past that endpoint.                                   *)
(***************************************************************************)
C12_OneRecordPerEndpointPerCycle ==
    [][checks' # checks =>
          \E x \in Execs :
              /\ exec[x].driver \in Drivers
              /\ exec[x].pc = "create"
              /\ checks' = checks (+) SetToBag({[endpoint_id |-> exec[x].endpoints[exec[x].i],
                                                 status |-> exec[x].result.status]})
              /\ \/ exec'[x].pc = "slack" /\ exec'[x].i = exec[x].i
                 \/ exec'[x].pc = "probe" /\ exec'[x].i = exec[x].i + 1
                 \/ exec'[x].pc = "idle" /\ exec[x].i = Len(exec[x].endpoints)]_vars

\* A handler of driver d is inside the tracker code of endpoint e, waiting
\* for sendSlackAlert.
Applying(d, e) ==
    \E x \in Execs :
        /\ exec[x].driver = d
        /\ exec[x].pc = "slack"
        /\ exec[x].endpoints[exec[x].i] = e

(***************************************************************************)
(* C13.  The tracker of an endpoint is what its records, applied one       *)
(* after the other in the order they were stored, make it: outside the     *)
(* tracker code, its failure count is the number of DOWN records since the *)
(* last UP record and its last status is the status of the last record.    *)
(***************************************************************************)
C13_TrackerFollowsRecords ==
    \A p \in Trackers :
        LET d == p[1]
            e == p[2]
            t == GetTracker(d, e)
        IN  (e \in DOMAIN downtimeTrackers[d] /\ ~Applying(d, e))
                => /\ t.consecutiveFailures = streak[d][e]
                   /\ t.lastStatus = (IF streak[d][e] > 0 THEN "DOWN" ELSE "UP")

(***************************************************************************)
(* C14.  While one handler is inside the tracker code of an endpoint, no   *)
(* other handler applies a result to that tracker, and a downtime alert is *)
(* raised only when the last alert of the endpoint, if any, was a recovery *)
(* alert: one streak yields one downtime alert.                            *)
(***************************************************************************)
C14_TrackerMutualExclusion ==
    [][\A p \in Trackers :
          LET d == p[1]
              e == p[2]
          IN  /\ Applying(d, e) =>
                    (~DownApplied(d, e) /\ \A x \in Execs : ~UpProcessed(x, d, e))
              /\ Emitted(d, e, "down") =>
                    (LastAlert(d, e) = 0 \/ slackLog[LastAlert(d, e)].kind = "recovery")]_vars

(***************************************************************************)
(* C15.  A restart leaves every tracker never-failed; from then on, with   *)
(* cycles run one at a time, a downtime alert is raised exactly by the     *)
(* DOWN result that completes a full threshold of consecutive DOWN results *)
(* applied since the restart, whatever was alerted before it, and an UP    *)
(* result applied before that raises no recovery alert.                    *)
(***************************************************************************)
C15_RestartForgetsTrackers ==
    [][/\ Restart => \A p \in Trackers : p[2] \notin DOMAIN downtimeTrackers'[p[1]]
       /\ \A p \in Trackers :
            LET d == p[1]
                e == p[2]
            IN  /\ Emitted(d, e, "down") =>
                      (DownApplied(d, e) /\ streak'[d][e] = ALERT_THRESHOLD_CHECKS(d))
                /\ (DownApplied(d, e) /\ streak'[d][e] = ALERT_THRESHOLD_CHECKS(d))
                      => Emitted(d, e, "down")
                /\ \A x \in Execs :
                      (UpProcessed(x, d, e) /\ streak[d][e] < ALERT_THRESHOLD_CHECKS(d))
                          => ~Emitted(d, e, "recovery")]_vars

\* The process was restarted in an outage that had been alerted, and the
\* outage was alerted a second time, no recovery in between.
C15_Witness ==
    \E p \in Trackers :
        /\ Cardinality(AlertsOf(p[1], p[2], "down")) = 2
        /\ AlertsOf(p[1], p[2], "recovery") = {}
        /\ streak[p[1]][p[2]] = ALERT_THRESHOLD_CHECKS(p[1])

(***************************************************************************)
(* C16.  The downtime an alert reports is the time from the first failure  *)
(* of its streak to the moment the alert is raised, rounded to minutes, in *)
(* both drivers.                                                           *)
(***************************************************************************)
C16_DurationIsElapsedTime ==
    \A i \in 1..Len(slackLog) :
        slackLog[i].since # NoTime =>
            slackLog[i].minutes =
                Round((slackLog[i].at - slackLog[i].since) * UnitSeconds, 60)

(***************************************************************************)
(* C17.  Whatever the request ends in, the probe returns a result, with a  *)
(* response time, whose status is UP exactly when a response came with a   *)
(* status code from 200 to 499, and DOWN otherwise.                        *)
(***************************************************************************)
C17_UpIffResponseBelow500 ==
    [][\A x \in Execs : \A o \in AllProbeOutcomes \cup ProbeOutcomes :
          \A dt \in ProbeDurations :
              Probe(x, o, dt) =>
                  /\ exec'[x].pc = "create"
                  /\ exec'[x].result.status \in {"UP", "DOWN"}
                  /\ exec'[x].result.status = "UP"
                        <=> (o.kind = "response" /\ o.code \in 200..499)
                  /\ exec'[x].result.responseTime # Undefined]_vars

\* A response with status 499 was classified UP, after one with status 500
\* was stored as DOWN.
C17_Witness ==
    /\ \E x \in Execs :
          exec[x].result.httpCode = Some(499) /\ exec[x].result.status = "UP"
    /\ BagIn([endpoint_id |-> "e1", status |-> "DOWN"], checks)

(***************************************************************************)
(* C18: in both queries, a window without a check of the endpoint is       *)
(* answered with an explicit no-data result, never with the uptime value   *)
(* 0 that a window whose checks are all DOWN is answered with.             *)
(***************************************************************************)
AllDown(cs) == cs # {} /\ \A c \in cs : c.status = "DOWN"

C18_DayDetailTellsNoData ==
    \A e \in Range(registry) : \A dp \in DateParams \ {Undefined} :
        DayDetailRequest(Some(e), dp) =>
            LET cs == DayChecks(e, dp[1])
            IN  /\ cs = {} => ~lastResponse'.hasData /\ lastResponse'.uptime # Some(0)
                /\ AllDown(cs) => lastResponse'.hasData /\ lastResponse'.uptime = Some(0)

C18_StatusTellsNoData ==
    \A dp \in DateParams : \A n \in DaysParams : \A tz \in ServerOffsets :
        StatusRequest(dp, n, tz) =>
            \A i \in 1..Len(registry) :
                LET w == rollupWindow(dp, n, tz)
                    cs == RollupChecks(registry[i], w.startDate, w.endDate)
                IN  /\ cs = {} => lastResponse'.services[i].uptime # Some(0)
                    /\ AllDown(cs) => lastResponse'.services[i].uptime = Some(0)

C18_NoDataIsNotZeroUptime ==
    [][C18_DayDetailTellsNoData /\ C18_StatusTellsNoData]_vars

(***************************************************************************)
(* C19: the day-detail query of date D includes a check of the endpoint if *)
(* and only if its timestamp, shifted by +5h30m, falls on calendar date D: *)
(* the window is [D 00:00:00.000, D 23:59:59.999] at UTC+5:30, whatever    *)
(* the local time of the server.                                           *)
(***************************************************************************)
\* The calendar date (of January 1970) of a time shifted by +5h30m.
ShiftedDate(checkedAt) ==
    [year |-> 1970, month |-> 1,
     day |-> 1 + ((checkedAt + (5 * 3600000) + (30 * 60000)) \div 86400000)]

C19_WindowIsTheReportingDay ==
    [][\A e \in Range(registry) : \A dp \in DateParams \ {Undefined} :
          DayDetailRequest(Some(e), dp) =>
              LET onDate == {c \in Rows : /\ c.endpoint_id = e
                                           /\ ShiftedDate(c.checked_at) = dp[1]}
              IN  /\ lastResponse'.checks = onDate
                  /\ lastResponse'.hasData = (onDate # {})]_vars

\* A day detail both includes a check of the day before in UTC and leaves
\* out a check of the endpoint.
C19_Witness ==
    /\ lastResponse.driver = "dayDetail"
    /\ lastResponse.hasData
    /\ \E c \in lastResponse.checks :
           1 + (c.checked_at \div 86400000) < lastResponse.request[2][1].day
    /\ \E c \in Rows : /\ c.endpoint_id = lastResponse.request[1][1]
                        /\ c \notin lastResponse.checks

(***************************************************************************)
(* C20: every check of a day detail is counted in exactly one hourly       *)
(* bucket, the one of its hour at UTC+5:30, the checks of the first and of *)
(* the last minute of the window included; the totals of the buckets sum   *)
(* to the number of checks of the day.                                     *)
(***************************************************************************)
\* The hour (0-23) of a time shifted by +5h30m.
ShiftedHour(checkedAt) ==
    ((checkedAt + (5 * 3600000) + (30 * 60000)) % 86400000) \div 3600000

DownIndex(cs, k) ==
    CHOOSE i \in 1..Len(cs) :
        /\ cs[i].status = "DOWN"
        /\ Cardinality({j \in 1..i : cs[j].status = "DOWN"}) = k

\* The indexes of the UP checks after index i.
LaterUps(cs, i) == {j \in (i + 1)..Len(cs) : cs[j].status = "UP"}

\* The answer is a day detail with data.
IsDayDetail == lastResponse.driver = "dayDetail" /\ lastResponse.hasData

(***************************************************************************)
(* C21: a DOWN check of a day detail that an UP check follows in the list  *)
(* has as its incident duration the time of the first such UP check less   *)
(* its own time, written 'Xm Ys', and 'Ys' when the minutes are zero.      *)
(***************************************************************************)
C21_DurationUntilNextUp ==
    IsDayDetail =>
        LET cs == lastResponse.timelineData
            inc == lastResponse.incidents
        IN  /\ Len(inc) = Cardinality({i \in 1..Len(cs) : cs[i].status = "DOWN"})
            /\ \A k \in 1..Len(inc) :
                   LET i == DownIndex(cs, k)
                       ups == LaterUps(cs, i)
                   IN  /\ inc[k].timestamp = cs[i].checked_at
                       /\ ups # {} =>
                              LET first == CHOOSE j \in ups : \A n \in ups : j <= n
                                  ms == cs[first].checked_at - cs[i].checked_at
                                  s == ms \div 1000
                              IN  /\ inc[k].durationMs = Some(ms)
                                  /\ inc[k].duration =
                                         IF s \div 60 = 0 THEN <<s, "s">>
                                         ELSE <<s \div 60, "m ", s % 60, "s">>

\* A day detail of a DOWN check followed by two UP checks, whose incident
\* lasts the 45 s to the first of them.
C21_Witness ==
    /\ IsDayDetail
    /\ Len(lastResponse.timelineData) = 3
    /\ lastResponse.timelineData[1].status = "DOWN"
    /\ lastResponse.timelineData[2].status = "UP"
    /\ lastResponse.timelineData[3].status = "UP"
    /\ lastResponse.timelineData[3].checked_at > lastResponse.timelineData[2].checked_at
    /\ lastResponse.incidents[1].duration = <<45, "s">>

(***************************************************************************)
(* C22: a DOWN check of a day detail that no UP check follows has the      *)
(* incident duration 'Ongoing' if and only if no check of the window is    *)
(* later than it, and '~1m' otherwise.                                     *)
(***************************************************************************)
C22_OngoingIffLast ==
    IsDayDetail =>
        LET cs == lastResponse.timelineData
            inc == lastResponse.incidents
        IN  \A k \in 1..Len(inc) :
                LET i == DownIndex(cs, k)
                    last == \A j \in 1..Len(cs) : cs[j].checked_at <= cs[i].checked_at
                IN  LaterUps(cs, i) = {} =>
                        /\ inc[k].durationMs = Undefined
                        /\ inc[k].duration = (IF last THEN <<"Ongoing">> ELSE <<"~1m">>)

(***************************************************************************)
(* C23: the overall uptime of an endpoint in the status rollup is the sum  *)
(* of the UP checks of the returned days over the sum of their checks, in  *)
(* percent and within the rounding of one decimal; it is not the mean of   *)
(* the uptimes of the days.                                                *)
(***************************************************************************)
C23_UptimeIsRatioOfSums ==
    lastResponse.driver = "status" =>
        \A i \in 1..Len(lastResponse.services) :
            LET days == lastResponse.services[i].dailyData
                up == SumOver(days, "up_checks")
                total == SumOver(days, "total_checks")
                tenths == lastResponse.services[i].uptime[1]
                diff == (tenths * total) - (1000 * up)
            IN  total > 0 => (2 * diff <= total /\ -2 * diff <= total)

\* A rollup of two days, one with one check, UP, and one with two checks,
\* DOWN: the overall uptime is 33.3, the mean of the days is 50.
C23_Witness ==
    /\ lastResponse.driver = "status"
    /\ \E i \in 1..Len(lastResponse.services) :
           /\ {<<s.total_checks, s.up_checks>> : s \in lastResponse.services[i].dailyData}
                  = {<<1, 1>>, <<2, 0>>}
           /\ lastResponse.services[i].uptime = Some(333)

(***************************************************************************)
(* C24: the two queries put a check under the same day: for every endpoint *)
(* and every date D whose day at UTC+5:30 lies in the window of a status   *)
(* rollup, the checks the rollup counts under D are those the day detail   *)
(* of D returns (same total, UP and DOWN counts).                          *)
(***************************************************************************)
\* The counts <<total, up, down>> the rollup entry s gives for the date.
CountedUnder(s, date) ==
    LET days == {x \in s.dailyData : x.date + 1 = date.day}
    IN  <<SumOver(days, "total_checks"), SumOver(days, "up_checks"),
          SumOver(days, "down_checks")>>

C24_SameDayInBothQueries ==
    [][\A dp \in DateParams : \A n \in DaysParams : \A tz \in ServerOffsets :
          StatusRequest(dp, n, tz) =>
              \A i \in 1..Len(registry) : \A D \in DateParams \ {Undefined} :
                  LET w == rollupWindow(dp, n, tz)
                      cs == DayChecks(registry[i], D[1])
                  IN  (w.startDate <= startOfDay(D[1]) /\ endOfDay(D[1]) <= w.endDate) =>
                          CountedUnder(lastResponse'.services[i], D[1])
                              = <<Cardinality(cs),
                                  Cardinality({c \in cs : c.status = "UP"}),
                                  Cardinality({c \in cs : c.status = "DOWN"})>>]_vars

(***************************************************************************)
(* C25: whenever no handler is in the middle of a synchronous step, every  *)
(* tracker has a first-failure time if and only if its count of            *)
(* consecutive failures is not 0.                                          *)
(***************************************************************************)
C25_FirstFailureTimeIffCounting ==
    \A d \in Drivers : \A e \in DOMAIN downtimeTrackers[d] :
        (downtimeTrackers[d][e].firstFailureTime = NoTime)
            <=> (downtimeTrackers[d][e].consecutiveFailures = 0)

\* A tracker counts its second failure and holds the time of the first,
\* earlier than now.
C25_Witness ==
    \E d \in Drivers : \E e \in DOMAIN downtimeTrackers[d] :
        /\ downtimeTrackers[d][e].consecutiveFailures >= 2
        /\ downtimeTrackers[d][e].firstFailureTime # NoTime
        /\ downtimeTrackers[d][e].firstFailureTime < now

(***************************************************************************)
(* C26: whenever no handler is in the middle of a synchronous step, a      *)
(* tracker whose alert-sent flag is set has a count of consecutive         *)
(* failures of at least the threshold of its driver and DOWN as its last   *)
(* status; the recovery condition is then the alert-sent flag alone.       *)
(***************************************************************************)
C26_AlertSentImpliesOutage ==
    \A d \in Drivers : \A e \in DOMAIN downtimeTrackers[d] :
        LET t == downtimeTrackers[d][e]
        IN  /\ t.alertSent => /\ t.consecutiveFailures >= ALERT_THRESHOLD_CHECKS(d)
                               /\ t.lastStatus = "DOWN"
            /\ ShouldRecover(t) <=> t.alertSent

(***************************************************************************)
(* C27: with results processed one at a time, the alerts a driver raises   *)
(* for an endpoint alternate, the first being a downtime alert: downtime,  *)
(* recovery, downtime, recovery, ...                                       *)
(***************************************************************************)
\* The kinds of the alerts raised so far for (d, e), in their order.
RECURSIVE KindsFrom(_, _, _)
KindsFrom(d, e, i) ==
    IF i > Len(slackLog) THEN <<>>
    ELSE IF slackLog[i].driver = d /\ slackLog[i].endpoint = e
    THEN <<slackLog[i].kind>> \o KindsFrom(d, e, i + 1)
    ELSE KindsFrom(d, e, i + 1)

C27_AlertsAlternate ==
    \A p \in Trackers :
        LET kinds == KindsFrom(p[1], p[2], 1)
        IN  \A i \in 1..Len(kinds) :
                kinds[i] = (IF i % 2 = 1 THEN "down" ELSE "recovery")

\* A driver has raised a downtime alert, a recovery alert and a second
\* downtime alert for the endpoint.
C27_Witness ==
    \E p \in Trackers : KindsFrom(p[1], p[2], 1) = <<"down", "recovery", "down">>

(***************************************************************************)
(* C28: after any start and stop calls the scheduler is marked running if  *)
(* and only if it holds a task; a stop while running cancels that task, a  *)
(* start after it creates exactly one new task, and a stop while not       *)
(* running changes nothing.                                                *)
(***************************************************************************)
C28_RunningIffTaskHeld ==
    [][/\ schedulerState'.isRunning <=> schedulerState'.task # NoTask
       /\ (schedulerState.isRunning /\ SchedulerStop)
             => /\ schedulerState.task \notin activeTasks'
                /\ ~schedulerState'.isRunning
                /\ tasksCreated' = tasksCreated
       /\ (~schedulerState.isRunning /\ (SchedulerStartRoute \/ AppInit))
             => /\ tasksCreated' = tasksCreated + 1
                /\ activeTasks' = activeTasks \cup {schedulerState'.task}
                /\ schedulerState'.task \notin activeTasks
                /\ schedulerState'.isRunning
       /\ ~schedulerState.isRunning
             => /\ schedulerState'.task = NoTask => schedulerState' = schedulerState
                /\ activeTasks \subseteq activeTasks']_vars

\* The scheduler was started, stopped and started again: it runs, holding
\* its second task, the only one active.
C28_Witness ==
    /\ schedulerState.isRunning
    /\ schedulerState.task = 2
    /\ activeTasks = {2}
    /\ tasksCreated = 2

(***************************************************************************)
(* C29: with both drivers running cycles in one process, an endpoint that  *)
(* has only been seen DOWN gets at most one downtime alert, the drivers    *)
(* raise their downtime alerts at the same count of failures, and, no      *)
(* cycle running, they hold the same tracker state for every endpoint.     *)
(***************************************************************************)
\* The downtime alerts raised so far for endpoint e, by any driver.
DownAlertsFor(e) ==
    {i \in 1..Len(slackLog) : slackLog[i].endpoint = e /\ slackLog[i].kind = "down"}

\* No UP check of endpoint e is stored: all its history is one outage.
OnlyDown(e) == \A c \in BagToSet(checks) : c.endpoint_id = e => c.status = "DOWN"

C29_OneAlertPerOutage ==
    \A e \in EndpointIds : OnlyDown(e) => Cardinality(DownAlertsFor(e)) <= 1

C29_SameThreshold ==
    \A i, j \in 1..Len(slackLog) :
        (slackLog[i].kind = "down" /\ slackLog[j].kind = "down")
            => slackLog[i].k = slackLog[j].k

C29_SameTrackerState ==
    NoneInFlight => \A e \in EndpointIds : GetTracker("cron", e) = GetTracker("sched", e)

C29_DriversAgree ==
    C29_OneAlertPerOutage /\ C29_SameThreshold /\ C29_SameTrackerState

====
